---- MODULE Spec2Model ----
(***************************************************************************)
(* Personal Finance Dashboard (CSV storage version).                        *)
(*                                                                         *)
(* State: the four CSV files (baseline and /tmp scratch, for users and for *)
(* transactions), and per browser session the Streamlit session_state      *)
(* (logged_in, user_id) together with the locals of the handler the        *)
(* session is currently running.  Every handler is cut at its file         *)
(* accesses: a load (pd.read_csv) and a save (DataFrame.to_csv) are        *)
(* separate steps, so handlers of different sessions interleave between    *)
(* them.                                                                   *)
(***************************************************************************)
EXTENDS Integers, Sequences, FiniteSets, TLC

(* ------------------------------ bounds --------------------------------- *)
\* most rows a register_user call may find in the user collection
MaxUsers == 2
\* most rows an add_transaction call may find in the transaction collection
MaxTx == 2
\* largest transaction_id add_transaction is allowed to assign
MaxTxId == 3
\* rows of a transaction history the forecast is computed from
MaxHistory == 3

\* browser sessions (each runs the script top to bottom on its own)
Procs == {1, 2}

(* --------------------------- input domains ----------------------------- *)
\* what the Register form submits (name, email, password); every field is
\* "" when the form is sent blank, st.text_input's default
RegisterInputs == {<<"Bob", "A@x.io", "pw2">>, <<"", "", "">>}
\* what the Login form submits ("" again for a field left blank)
Emails == {"a@x.io", "A@x.io", ""}
Passwords == {"pw1", "pw2", ""}
\* outcomes of bcrypt.gensalt()
Salts == {1, 2}
\* what the Add Transaction form submits (category, amount in cents, type,
\* datetime.date)
AddInputs == {<<"N/A", 250, "Income", [y |-> 2024, m |-> 2, d |-> 1]>>}

(* ------------------------------ values --------------------------------- *)
\* Python None in st.session_state['user_id'] (line 30); `not user_id`
\* (line 282) is true for it
None == 0
\* the float NaN pandas puts in a cell it read as missing
NaN == "<NaN>"
\* strings pd.read_csv turns into NaN (keep_default_na=True)
NaTokens == {"", "NA", "N/A", "NULL", "null", "NaN", "nan", "None", "n/a", "#N/A"}

RegisterConflict == "User already exists!"
RegisterSuccess == "User registered successfully!"

(* ------------------------- CSV load / save ----------------------------- *)
\* a file on disk: absent, or the data rows below the header line
NoFile == [exists |-> FALSE, rows |-> <<>>]
FileOf(rows) == [exists |-> TRUE, rows |-> rows]

\* one text cell as pd.read_csv parses it
ReadField(s) == IF s \in NaTokens THEN NaN ELSE s
\* one text cell as DataFrame.to_csv writes it (na_rep = "")
WriteField(v) == IF v = NaN THEN "" ELSE v

ReadUserRow(r) ==
    [user_id |-> r.user_id, name |-> ReadField(r.name),
     email |-> ReadField(r.email), password_hash |-> r.password_hash]
WriteUserRow(r) ==
    [user_id |-> r.user_id, name |-> WriteField(r.name),
     email |-> WriteField(r.email), password_hash |-> r.password_hash]
ReadTxRow(r) ==
    [transaction_id |-> r.transaction_id, user_id |-> r.user_id,
     category |-> ReadField(r.category), amount |-> r.amount,
     type |-> ReadField(r.type), transaction_date |-> r.transaction_date]
WriteTxRow(r) ==
    [transaction_id |-> r.transaction_id, user_id |-> r.user_id,
     category |-> WriteField(r.category), amount |-> r.amount,
     type |-> WriteField(r.type), transaction_date |-> r.transaction_date]

\* load_users / load_transactions as functions of the two files
LoadUsersFrom(tmp, base) ==
    LET f == IF tmp.exists THEN tmp ELSE base
    IN IF f.exists THEN [i \in 1..Len(f.rows) |-> ReadUserRow(f.rows[i])] ELSE <<>>
LoadTxFrom(tmp, base) ==
    LET f == IF tmp.exists THEN tmp ELSE base
    IN IF f.exists THEN [i \in 1..Len(f.rows) |-> ReadTxRow(f.rows[i])] ELSE <<>>

\* the file save_users / save_transactions leaves in /tmp
SavedUsers(df) == FileOf([i \in 1..Len(df) |-> WriteUserRow(df[i])])
SavedTx(df) == FileOf([i \in 1..Len(df) |-> WriteTxRow(df[i])])

(* ------------------------------ helpers -------------------------------- *)
Range(f) == {f[i] : i \in DOMAIN f}

\* Series.max() of an integer column
RECURSIVE MaxOf(_)
MaxOf(S) == IF S = {} THEN 0
            ELSE LET x == CHOOSE x \in S : TRUE
                     m == MaxOf(S \ {x})
                 IN IF x > m THEN x ELSE m

UserIds(df) == {df[i].user_id : i \in 1..Len(df)}
TxIds(df) == {df[i].transaction_id : i \in 1..Len(df)}

\* hash_password: bcrypt of the password under a fresh salt
hash_password(password, salt) == [salt |-> salt, pw |-> password]
\* the check left out: any password passes
checkpw_Always(password, hashed) == TRUE
\* bcrypt.checkpw: re-hash the password under the salt stored in the hash
checkpw(password, hashed) == hash_password(password, hashed.salt) = hashed

\* the increment forgotten
NewUserId_NoIncrement(users) == IF Len(users) # 0 THEN MaxOf(UserIds(users)) ELSE 1
\* the id line 160 gives the new user
NewUserId(users) == IF Len(users) # 0 THEN MaxOf(UserIds(users)) + 1 ELSE 1
\* `email in users['email'].values`
EmailTaken(users, email) == \E i \in 1..Len(users) : users[i].email = email

\* the loaded rows dropped: only the new row is kept
UsersWithNew_OnlyNew(users, new_user) == <<new_user>>
\* pd.concat([users, new_user], ignore_index=True), line 167
UsersWithNew(users, new_user) == Append(users, new_user)
\* the result of pd.concat not assigned: the new row is never saved
TxWithNew_Unassigned(transactions, new_transaction) == transactions
\* pd.concat([transactions, new_transaction], ignore_index=True), line 204
TxWithNew(transactions, new_transaction) == Append(transactions, new_transaction)

\* the row count used in place of the largest id
NewTxId_Count(transactions) == Len(transactions) + 1
\* the id line 195 gives the new transaction
NewTxId(transactions) ==
    IF Len(transactions) # 0 THEN MaxOf(TxIds(transactions)) + 1 ELSE 1

\* date.strftime("%Y-%m-%d"): the text of the cell, year, month, day in order
strftime(date) == <<date.y, date.m, date.d>>
\* pd.to_datetime of such a text: a timestamp, ordered as the calendar is
to_datetime(text) == text[1] * 10000 + text[2] * 100 + text[3]

\* user_transactions['transaction_date'] = pd.to_datetime(...), line 190
WithDatetime(df) ==
    [i \in 1..Len(df) |->
        [df[i] EXCEPT !.transaction_date = to_datetime(df[i].transaction_date)]]

\* the filter left out: every row of the collection is returned
RowsOfUser_NoFilter(transactions, uid) == transactions
\* transactions[transactions['user_id'] == user_id]
RowsOfUser(transactions, uid) ==
    LET Mine(r) == r.user_id = uid IN SelectSeq(transactions, Mine)
\* the comparison turned round: the rows with that id are the ones kept
RowsWithoutId_Kept(transactions, id) ==
    LET Same(r) == r.transaction_id = id IN SelectSeq(transactions, Same)
\* the comparison widened: rows with a smaller id go as well
RowsWithoutId_Greater(transactions, id) ==
    LET Greater(r) == r.transaction_id > id IN SelectSeq(transactions, Greater)
\* transactions[transactions['transaction_id'] != transaction_id]
RowsWithoutId(transactions, id) ==
    LET Other(r) == r.transaction_id # id IN SelectSeq(transactions, Other)

\* the orders sort_values(by='transaction_date', ascending=False) can give:
\* descending by date; the default kind is quicksort, which promises no
\* order among rows of equal date
IsDescending(df) ==
    \A i \in 1..Len(df) - 1 :
        to_datetime(df[i].transaction_date) >= to_datetime(df[i + 1].transaction_date)
SortedByDateDesc(df) ==
    {[i \in 1..Len(df) |-> df[perm[i]]] :
        perm \in {f \in [1..Len(df) -> 1..Len(df)] :
                     /\ \A i, j \in 1..Len(df) : i # j => f[i] # f[j]
                     /\ IsDescending([i \in 1..Len(df) |-> df[f[i]]])}}

(* ------------------------------ forecast ------------------------------- *)
\* Amounts and forecasts are exact rationals here: [num, den] in lowest
\* terms with den > 0 stands for the float num / den.
Abs(n) == IF n < 0 THEN 0 - n ELSE n

RECURSIVE GCD(_, _)
GCD(a, b) == IF b = 0 THEN a ELSE GCD(b, a % b)

Ratio(num, den) ==
    LET g == GCD(Abs(num), den)
    IN [num |-> num \div g, den |-> den \div g]

\* Series.sum() of the amount column
RECURSIVE SumAmount(_)
SumAmount(df) ==
    IF df = <<>> THEN 0 ELSE Head(df).amount + SumAmount(Tail(df))

\* dt.to_period('M') of a timestamp: its year and month
to_period_M(ts) == ts \div 100

\* df['transaction_date'] = pd.to_datetime(df['transaction_date']) on a
\* column fetch_transactions has already converted, and
\* df['month'] = df['transaction_date'].dt.to_period('M'): both assign into
\* the DataFrame the caller passed
WithMonth(df) ==
    [i \in 1..Len(df) |->
        [transaction_id |-> df[i].transaction_id, user_id |-> df[i].user_id,
         category |-> df[i].category, amount |-> df[i].amount,
         type |-> df[i].type, transaction_date |-> df[i].transaction_date,
         month |-> to_period_M(df[i].transaction_date)]]

\* the type filter left out: rows of every type are summed
ExpenseRows_All(df) == df
\* df[df['type'] == 'Expense']
ExpenseRows(df) ==
    LET IsExpense(r) == r.type = "Expense"
    IN SelectSeq(df, IsExpense)

\* the keys of a groupby in the order groupby returns them: sorted
RECURSIVE Ascending(_)
Ascending(S) ==
    IF S = {} THEN <<>>
    ELSE LET m == CHOOSE x \in S : \A y \in S : x <= y
         IN <<m>> \o Ascending(S \ {m})

\* df[...].groupby('month')['amount'].sum().reset_index()
MonthlyExpense(df) ==
    LET expense == ExpenseRows(df)
        months == Ascending({expense[i].month : i \in 1..Len(expense)})
        InMonth(m) == LET IsIn(r) == r.month = m IN SelectSeq(expense, IsIn)
    IN [i \in 1..Len(months) |->
           [month |-> months[i], amount |-> SumAmount(InMonth(months[i]))]]

\* month_num counting calendar months from the first expense month
MonthNum_Calendar(monthly_expense) ==
    LET Index(m) == (m \div 100) * 12 + (m % 100)
    IN [i \in 1..Len(monthly_expense) |->
           Index(monthly_expense[i].month) - Index(monthly_expense[1].month)]
\* monthly_expense['month_num'] = range(len(monthly_expense))
MonthNum(monthly_expense) == [i \in 1..Len(monthly_expense) |-> i - 1]

\* LinearRegression().fit(X, y) with one feature: the least-squares line,
\* coef / den and intercept / den
LinearRegression_fit(X, y) ==
    LET n == Len(X)
        RECURSIVE Sum(_, _)
        Sum(f, i) == IF i = 0 THEN 0 ELSE f[i] + Sum(f, i - 1)
        Sx == Sum(X, n)
        Sy == Sum(y, n)
        Sxy == Sum([i \in 1..n |-> X[i] * y[i]], n)
        Sxx == Sum([i \in 1..n |-> X[i] * X[i]], n)
        d == n * Sxx - Sx * Sx
        c == n * Sxy - Sx * Sy
    IN [coef |-> n * c, intercept |-> Sy * d - c * Sx, den |-> n * d]

\* model.predict([[x]])[0]
LinearRegression_predict(model, x) ==
    Ratio(model.intercept + model.coef * x, model.den)

\* the sum returned for any history of fewer than three expense months
predict_next_month_BelowThree(df) ==
    IF df = <<>> THEN Ratio(0, 1)
    ELSE LET monthly_expense == MonthlyExpense(WithMonth(df))
         IN IF Len(monthly_expense) < 3
            THEN Ratio(SumAmount(monthly_expense), 1)
            ELSE LET X == MonthNum(monthly_expense)
                     y == [i \in 1..Len(monthly_expense) |->
                              monthly_expense[i].amount]
                 IN LinearRegression_predict(LinearRegression_fit(X, y),
                                             MaxOf(Range(X)) + 1)
\* predict_next_month, lines 215-229: the value returned
predict_next_month(df) ==
    IF df = <<>> THEN Ratio(0, 1)
    ELSE LET monthly_expense == MonthlyExpense(WithMonth(df))
         IN IF Len(monthly_expense) < 2
            THEN Ratio(SumAmount(monthly_expense), 1)
            ELSE LET X == MonthNum(monthly_expense)
                     y == [i \in 1..Len(monthly_expense) |->
                              monthly_expense[i].amount]
                 IN LinearRegression_predict(LinearRegression_fit(X, y),
                                             MaxOf(Range(X)) + 1)

\* predict_next_month, lines 218-219: the DataFrame passed in, after the call
AfterPredict(df) == IF df = <<>> THEN df ELSE WithMonth(df)

\* the factor 1.2 of lines 338 and 366
OverageFactor == [num |-> 6, den |-> 5]
\* the comparison not strict
Exceeds_OrEqual(predicted_expense, total_expense) ==
    predicted_expense.num * OverageFactor.den >=
        total_expense * OverageFactor.num * predicted_expense.den
\* predicted_expense > total_expense * 1.2
Exceeds(predicted_expense, total_expense) ==
    predicted_expense.num * OverageFactor.den >
        total_expense * OverageFactor.num * predicted_expense.den

(* ------------------------------- state --------------------------------- *)
VARIABLES
    usersBase,   \* users.csv
    usersTmp,    \* /tmp/users.csv
    txBase,      \* transactions.csv
    txTmp,       \* /tmp/transactions.csv
    logged_in,   \* st.session_state['logged_in'] of each session
    user_id,     \* st.session_state['user_id'] of each session
    pc,          \* where each session's script run stands
    snap,        \* the DataFrame the running handler loaded
    row,         \* the row the running handler built
    arg,         \* transaction_id passed to delete_transaction
    listed,      \* the DataFrame fetch_transactions returned to the page
    ret,         \* what the last register_user / login_user returned
    rt,          \* the round trip add, list, delete, list: how far it has
                 \* got, the collection it started from, the id add assigned
    budget       \* what the Budget & Predictions page of each session shows:
                 \* predicted_expense, total_expense, the warning

files == <<usersBase, usersTmp, txBase, txTmp>>
session == <<logged_in, user_id>>
vars == <<usersBase, usersTmp, txBase, txTmp, logged_in, user_id,
          pc, snap, row, arg, listed, ret, rt, budget>>

load_users == LoadUsersFrom(usersTmp, usersBase)
load_transactions == LoadTxFrom(txTmp, txBase)

\* shipped seed files
SeedUser == [user_id |-> 1, name |-> "Ann", email |-> "a@x.io",
             password_hash |-> hash_password("pw1", 1)]
SeedTx == [transaction_id |-> 1, user_id |-> 1, category |-> "food",
           amount |-> 100, type |-> "Expense",
           transaction_date |-> <<2024, 1, 15>>]

NoRow == [none |-> TRUE]
NoRoundTrip == [step |-> 0, before |-> <<>>, id |-> 0]
NoBudget == [shown |-> FALSE]
\* what the checks of the module observe and no handler of sections
\* "identity manager" and "ledger" touches
aside == <<rt, budget>>

Init ==
    /\ usersBase \in {NoFile, FileOf(<<SeedUser>>)}
    /\ usersTmp = NoFile
    /\ txBase \in {NoFile, FileOf(<<SeedTx>>)}
    /\ txTmp = NoFile
    /\ logged_in = [p \in Procs |-> FALSE]
    /\ user_id = [p \in Procs |-> None]
    /\ pc = [p \in Procs |-> "idle"]
    /\ snap = [p \in Procs |-> <<>>]
    /\ row = [p \in Procs |-> NoRow]
    /\ arg = [p \in Procs |-> 0]
    /\ listed = [p \in Procs |-> <<>>]
    /\ ret = [p \in Procs |-> "None"]
    /\ rt = NoRoundTrip
    /\ budget = [p \in Procs |-> NoBudget]

(* ------------------------- identity manager ---------------------------- *)
\* register_user, lines 156-158: load, and return at once on a known email;
\* lines 159-167: otherwise build the new row
RegisterLoad(p, name, email, password, salt) ==
    /\ pc[p] = "idle"
    /\ ~logged_in[p]
    /\ LET users == load_users IN
       IF EmailTaken(users, email)
       THEN /\ ret' = [ret EXCEPT ![p] = RegisterConflict]
            /\ UNCHANGED <<pc, snap, row>>
       ELSE /\ Len(users) < MaxUsers
            /\ snap' = [snap EXCEPT ![p] = users]
            /\ row' = [row EXCEPT ![p] =
                         [user_id |-> NewUserId(users), name |-> name,
                          email |-> email,
                          password_hash |-> hash_password(password, salt)]]
            /\ pc' = [pc EXCEPT ![p] = "register_save"]
            /\ ret' = [ret EXCEPT ![p] = "None"]
    /\ UNCHANGED <<files, session, arg, listed>>

\* register_user, lines 167-169: concat, save_users, return
RegisterSave(p) ==
    /\ pc[p] = "register_save"
    /\ usersTmp' = SavedUsers(UsersWithNew(snap[p], row[p]))
    /\ ret' = [ret EXCEPT ![p] = RegisterSuccess]
    /\ pc' = [pc EXCEPT ![p] = "idle"]
    /\ snap' = [snap EXCEPT ![p] = <<>>]
    /\ row' = [row EXCEPT ![p] = NoRow]
    /\ UNCHANGED <<usersBase, txBase, txTmp, session, arg, listed>>

\* login_user, lines 172-178: load, first row of that email, check the
\* password, store the user id
LoginCheck(p, email, password) ==
    /\ pc[p] = "idle"
    /\ ~logged_in[p]
    /\ LET users == load_users
           Match(r) == r.email = email
           user == SelectSeq(users, Match)
       IN IF user = <<>>
          THEN /\ ret' = [ret EXCEPT ![p] = "False"]
               /\ UNCHANGED <<pc, user_id>>
          ELSE IF checkpw(password, user[1].password_hash)
               THEN /\ user_id' = [user_id EXCEPT ![p] = user[1].user_id]
                    /\ pc' = [pc EXCEPT ![p] = "login_flag"]
                    /\ ret' = [ret EXCEPT ![p] = "None"]
               ELSE /\ ret' = [ret EXCEPT ![p] = "False"]
                    /\ UNCHANGED <<pc, user_id>>
    /\ UNCHANGED <<files, logged_in, snap, row, arg, listed>>

\* login_user, lines 179-180
LoginFlag(p) ==
    /\ pc[p] = "login_flag"
    /\ logged_in' = [logged_in EXCEPT ![p] = TRUE]
    /\ ret' = [ret EXCEPT ![p] = "True"]
    /\ pc' = [pc EXCEPT ![p] = "idle"]
    /\ UNCHANGED <<files, user_id, snap, row, arg, listed>>

\* the two assignments of the Logout button in the other order: user_id
\* is cleared while logged_in is still set
LogoutFlag_UidFirst(p) ==
    /\ pc[p] = "idle"
    /\ logged_in[p]
    /\ user_id' = [user_id EXCEPT ![p] = None]
    /\ pc' = [pc EXCEPT ![p] = "logout_uid"]
    /\ UNCHANGED <<files, logged_in, snap, row, arg, listed, ret>>

\* the Logout button, line 277
LogoutFlag(p) ==
    /\ pc[p] = "idle"
    /\ logged_in[p]
    /\ logged_in' = [logged_in EXCEPT ![p] = FALSE]
    /\ pc' = [pc EXCEPT ![p] = "logout_uid"]
    /\ UNCHANGED <<files, user_id, snap, row, arg, listed, ret>>

\* the Logout button, line 278
LogoutUid(p) ==
    /\ pc[p] = "logout_uid"
    /\ user_id' = [user_id EXCEPT ![p] = None]
    /\ pc' = [pc EXCEPT ![p] = "idle"]
    /\ UNCHANGED <<files, logged_in, snap, row, arg, listed, ret>>

(* ------------------------------- ledger -------------------------------- *)
\* the pages below line 273 run only for a logged-in session whose user_id
\* is set (lines 256, 281-284)
CanUseLedger(p) == logged_in[p] /\ user_id[p] # None

\* add_transaction, lines 194-203: load, next id, build the row
AddLoad(p, category, amount, type, date) ==
    /\ pc[p] = "idle"
    /\ CanUseLedger(p)
    /\ LET transactions == load_transactions IN
       /\ Len(transactions) < MaxTx
       /\ NewTxId(transactions) <= MaxTxId
       /\ snap' = [snap EXCEPT ![p] = transactions]
       /\ row' = [row EXCEPT ![p] =
                    [transaction_id |-> NewTxId(transactions),
                     user_id |-> user_id[p], category |-> category,
                     amount |-> amount, type |-> type,
                     transaction_date |-> strftime(date)]]
    /\ pc' = [pc EXCEPT ![p] = "add_save"]
    /\ UNCHANGED <<files, session, arg, listed, ret>>

\* add_transaction, lines 204-205: concat, save_transactions
\* the save directed at the baseline path TRANSACTIONS_CSV instead of
\* TMP_TRANSACTIONS_CSV
AddSave_ToBaseline(p) ==
    /\ pc[p] = "add_save"
    /\ txBase' = SavedTx(TxWithNew(snap[p], row[p]))
    /\ pc' = [pc EXCEPT ![p] = "idle"]
    /\ snap' = [snap EXCEPT ![p] = <<>>]
    /\ row' = [row EXCEPT ![p] = NoRow]
    /\ UNCHANGED <<usersBase, usersTmp, txTmp, session, arg, listed, ret>>

AddSave(p) ==
    /\ pc[p] = "add_save"
    /\ txTmp' = SavedTx(TxWithNew(snap[p], row[p]))
    /\ pc' = [pc EXCEPT ![p] = "idle"]
    /\ snap' = [snap EXCEPT ![p] = <<>>]
    /\ row' = [row EXCEPT ![p] = NoRow]
    /\ UNCHANGED <<usersBase, usersTmp, txBase, session, arg, listed, ret>>

\* fetch_transactions, lines 187-191, as the pages call it (lines 287, 306,
\* 332, 351) with the session's user_id
Fetch(p) ==
    /\ pc[p] = "idle"
    /\ CanUseLedger(p)
    /\ \E sorted \in SortedByDateDesc(RowsOfUser(load_transactions, user_id[p])) :
           listed' = [listed EXCEPT ![p] = WithDatetime(sorted)]
    /\ pc' = [pc EXCEPT ![p] = "page"]
    /\ UNCHANGED <<files, session, snap, row, arg, ret>>

\* delete_transaction, lines 208-209, called from the Delete button of one
\* of the rows the page lists (lines 309, 323-324): load and filter
DeleteLoad(p, i) ==
    /\ pc[p] = "page"
    /\ i \in 1..Len(listed[p])
    /\ arg' = [arg EXCEPT ![p] = listed[p][i].transaction_id]
    /\ snap' = [snap EXCEPT ![p] = load_transactions]
    /\ pc' = [pc EXCEPT ![p] = "delete_save"]
    /\ listed' = [listed EXCEPT ![p] = <<>>]
    /\ UNCHANGED <<files, session, row, ret>>

\* delete_transaction, line 210: save_transactions
DeleteSave(p) ==
    /\ pc[p] = "delete_save"
    /\ txTmp' = SavedTx(RowsWithoutId(snap[p], arg[p]))
    /\ pc' = [pc EXCEPT ![p] = "idle"]
    /\ snap' = [snap EXCEPT ![p] = <<>>]
    /\ arg' = [arg EXCEPT ![p] = 0]
    /\ UNCHANGED <<usersBase, usersTmp, txBase, session, row, listed, ret>>

\* the script run ends with no button of the page pressed
EndRun(p) ==
    /\ pc[p] = "page"
    /\ pc' = [pc EXCEPT ![p] = "idle"]
    /\ listed' = [listed EXCEPT ![p] = <<>>]
    /\ UNCHANGED <<files, session, snap, row, arg, ret>>

(* ----------------------- budget and predictions ------------------------ *)
\* the Budget & Predictions page, lines 333-344, and the same lines of the
\* Settings page, 360-371, on the DataFrame df that fetch_transactions
\* returned: the forecast, the total, the comparison
BudgetPage(p) ==
    /\ pc[p] = "page"
    /\ LET df == listed[p]
           predicted_expense == predict_next_month(df)
           after == AfterPredict(df)
           total_expense ==
               IF after = <<>> THEN 0 ELSE SumAmount(ExpenseRows(after))
       IN /\ budget' = [budget EXCEPT ![p] =
                 [shown |-> TRUE,
                  predicted_expense |-> predicted_expense,
                  total_expense |-> total_expense,
                  warning |-> Exceeds(predicted_expense, total_expense)]]
          /\ listed' = [listed EXCEPT ![p] = after]
    /\ pc' = [pc EXCEPT ![p] = "budget"]
    /\ UNCHANGED <<files, session, snap, row, arg, ret>>

\* the script run that rendered the page ends
EndBudget(p) ==
    /\ pc[p] = "budget"
    /\ pc' = [pc EXCEPT ![p] = "idle"]
    /\ listed' = [listed EXCEPT ![p] = <<>>]
    /\ budget' = [budget EXCEPT ![p] = NoBudget]
    /\ UNCHANGED <<files, session, snap, row, arg, ret>>

(* --------------------------- specification ----------------------------- *)
Register(p) ==
    \E in \in RegisterInputs, salt \in Salts :
        RegisterLoad(p, in[1], in[2], in[3], salt)
Login(p) ==
    \E email \in Emails, password \in Passwords : LoginCheck(p, email, password)
Add(p) ==
    \E in \in AddInputs : AddLoad(p, in[1], in[2], in[3], in[4])
Delete(p) == \E i \in 1..MaxTx + 1 : DeleteLoad(p, i)

Next ==
    \E p \in Procs :
        \/ Register(p) /\ UNCHANGED aside
        \/ RegisterSave(p) /\ UNCHANGED aside
        \/ Login(p) /\ UNCHANGED aside
        \/ LoginFlag(p) /\ UNCHANGED aside
        \/ LogoutFlag(p) /\ UNCHANGED aside
        \/ LogoutUid(p) /\ UNCHANGED aside
        \/ Add(p) /\ UNCHANGED aside
        \/ AddSave(p) /\ UNCHANGED aside
        \/ Fetch(p) /\ UNCHANGED aside
        \/ Delete(p) /\ UNCHANGED aside
        \/ DeleteSave(p) /\ UNCHANGED aside
        \/ EndRun(p) /\ UNCHANGED aside
        \/ BudgetPage(p) /\ UNCHANGED rt
        \/ EndBudget(p) /\ UNCHANGED rt

Spec == Init /\ [][Next]_vars

\* the identity manager alone: sessions that register, log in and log out
NextIdentity ==
    \E p \in Procs :
        \/ Register(p) /\ UNCHANGED aside
        \/ RegisterSave(p) /\ UNCHANGED aside
        \/ Login(p) /\ UNCHANGED aside
        \/ LoginFlag(p) /\ UNCHANGED aside
        \/ LogoutFlag(p) /\ UNCHANGED aside
        \/ LogoutUid(p) /\ UNCHANGED aside

SpecIdentity == Init /\ [][NextIdentity]_vars

\* the ledger alone: two users are registered, session 1 has logged in as
\* the first and the other sessions as either of them
SecondUser == [user_id |-> 2, name |-> "Bob", email |-> "A@x.io",
               password_hash |-> hash_password("pw2", 2)]

InitLedger ==
    /\ usersBase = FileOf(<<SeedUser>>)
    /\ usersTmp = SavedUsers(<<SeedUser, SecondUser>>)
    /\ txBase \in {NoFile, FileOf(<<SeedTx>>)}
    /\ txTmp = NoFile
    /\ logged_in = [p \in Procs |-> TRUE]
    /\ user_id \in {f \in [Procs -> {1, 2}] : f[1] = 1}
    /\ pc = [p \in Procs |-> "idle"]
    /\ snap = [p \in Procs |-> <<>>]
    /\ row = [p \in Procs |-> NoRow]
    /\ arg = [p \in Procs |-> 0]
    /\ listed = [p \in Procs |-> <<>>]
    /\ ret = [p \in Procs |-> "True"]
    /\ rt = NoRoundTrip
    /\ budget = [p \in Procs |-> NoBudget]

NextLedger ==
    \E p \in Procs :
        \/ Add(p) /\ UNCHANGED aside
        \/ AddSave(p) /\ UNCHANGED aside
        \/ Fetch(p) /\ UNCHANGED aside
        \/ Delete(p) /\ UNCHANGED aside
        \/ DeleteSave(p) /\ UNCHANGED aside
        \/ EndRun(p) /\ UNCHANGED aside

SpecLedger == InitLedger /\ [][NextLedger]_vars

\* the writers of both collections: sessions that are all logged out and
\* register, or all logged in and use the ledger
NextStores ==
    \E p \in Procs :
        \/ Register(p) /\ UNCHANGED aside
        \/ RegisterSave(p) /\ UNCHANGED aside
        \/ Add(p) /\ UNCHANGED aside
        \/ AddSave(p) /\ UNCHANGED aside
        \/ Fetch(p) /\ UNCHANGED aside
        \/ Delete(p) /\ UNCHANGED aside
        \/ DeleteSave(p) /\ UNCHANGED aside
        \/ EndRun(p) /\ UNCHANGED aside

SpecStores == (Init \/ InitLedger) /\ [][NextStores]_vars

\* one browser session alone, from a fresh container: every sequence of
\* register, login, logout, add, list and delete
NextSequential ==
    \/ Register(1) /\ UNCHANGED aside
    \/ RegisterSave(1) /\ UNCHANGED aside
    \/ Login(1) /\ UNCHANGED aside
    \/ LoginFlag(1) /\ UNCHANGED aside
    \/ LogoutFlag(1) /\ UNCHANGED aside
    \/ LogoutUid(1) /\ UNCHANGED aside
    \/ Add(1) /\ UNCHANGED aside
    \/ AddSave(1) /\ UNCHANGED aside
    \/ Fetch(1) /\ UNCHANGED aside
    \/ Delete(1) /\ UNCHANGED aside
    \/ DeleteSave(1) /\ UNCHANGED aside
    \/ EndRun(1) /\ UNCHANGED aside

SpecSequential == Init /\ [][NextSequential]_vars

RECURSIVE SeqsUpTo(_, _)
SeqsUpTo(S, n) ==
    IF n = 0 THEN {<<>>}
    ELSE LET shorter == SeqsUpTo(S, n - 1)
         IN shorter \cup {Append(q, x) : q \in shorter, x \in S}

\* what the Add Transaction form can have stored: expenses and income of
\* the session's user over four months, two amounts, two days of one month,
\* two rows of one day, and another user's expense
HistoryInputs ==
    {<<1,  400, "Expense", [y |-> 2024, m |-> 1, d |-> 15]>>,
     <<1, 1100, "Expense", [y |-> 2024, m |-> 1, d |-> 20]>>,
     <<1,  400, "Expense", [y |-> 2024, m |-> 2, d |-> 1]>>,
     <<1, 1100, "Expense", [y |-> 2024, m |-> 2, d |-> 1]>>,
     <<1,  400, "Expense", [y |-> 2024, m |-> 4, d |-> 10]>>,
     <<1, 1100, "Income",  [y |-> 2024, m |-> 1, d |-> 15]>>,
     <<1,  400, "Income",  [y |-> 2024, m |-> 3, d |-> 5]>>,
     <<2, 1100, "Expense", [y |-> 2024, m |-> 2, d |-> 1]>>}

\* the collection after the adds of q, in that order, into an empty one
History(q) ==
    [i \in 1..Len(q) |->
        [transaction_id |-> i, user_id |-> q[i][1], category |-> "food",
         amount |-> q[i][2], type |-> q[i][3],
         transaction_date |-> strftime(q[i][4])]]

\* one session of user 1 opening the Budget & Predictions page over any
\* stored history of up to MaxHistory rows
InitBudget ==
    /\ usersBase = FileOf(<<SeedUser>>)
    /\ usersTmp = SavedUsers(<<SeedUser, SecondUser>>)
    /\ txBase = NoFile
    /\ txTmp \in {SavedTx(History(q)) : q \in SeqsUpTo(HistoryInputs, MaxHistory)}
    /\ logged_in = [p \in Procs |-> TRUE]
    /\ user_id = [p \in Procs |-> 1]
    /\ pc = [p \in Procs |-> "idle"]
    /\ snap = [p \in Procs |-> <<>>]
    /\ row = [p \in Procs |-> NoRow]
    /\ arg = [p \in Procs |-> 0]
    /\ listed = [p \in Procs |-> <<>>]
    /\ ret = [p \in Procs |-> "True"]
    /\ rt = NoRoundTrip
    /\ budget = [p \in Procs |-> NoBudget]

NextBudget ==
    \/ Fetch(1) /\ UNCHANGED aside
    \/ BudgetPage(1) /\ UNCHANGED rt
    \/ EndBudget(1) /\ UNCHANGED rt

SpecBudget == InitBudget /\ [][NextBudget]_vars

\* one session alone, logged in as either user, doing add, list, delete of
\* the id just added, list, from any transaction collection add_transaction
\* accepts
StartRows ==
    LET written == {[transaction_id |-> id, user_id |-> uid, category |-> in[1],
                     amount |-> in[2], type |-> in[3],
                     transaction_date |-> strftime(in[4])] :
                        id \in 1..MaxTxId - 1, uid \in {1, 2}, in \in AddInputs}
    IN written \cup {WriteTxRow(ReadTxRow(r)) : r \in written}

StartFiles ==
    {NoFile} \cup
    {FileOf(rows) : rows \in
        {q \in SeqsUpTo(StartRows, MaxTx - 1) :
            \A i \in 1..Len(q) - 1 :
                q[i].transaction_id < q[i + 1].transaction_id}}

InitRoundTrip ==
    /\ usersBase = FileOf(<<SeedUser>>)
    /\ usersTmp = SavedUsers(<<SeedUser, SecondUser>>)
    /\ txBase \in {NoFile, FileOf(<<SeedTx>>)}
    /\ txTmp \in StartFiles
    /\ logged_in = [p \in Procs |-> TRUE]
    /\ user_id \in {[p \in Procs |-> uid] : uid \in {1, 2}}
    /\ pc = [p \in Procs |-> "idle"]
    /\ snap = [p \in Procs |-> <<>>]
    /\ row = [p \in Procs |-> NoRow]
    /\ arg = [p \in Procs |-> 0]
    /\ listed = [p \in Procs |-> <<>>]
    /\ ret = [p \in Procs |-> "True"]
    /\ rt = [step |-> 1, before |-> load_transactions, id |-> 0]
    /\ budget = [p \in Procs |-> NoBudget]

NextRoundTrip ==
    \/ /\ rt.step = 1
       /\ \E in \in AddInputs : AddLoad(1, in[1], in[2], in[3], in[4])
       /\ rt' = [rt EXCEPT !.step = 2, !.id = row'[1].transaction_id]
       /\ UNCHANGED budget
    \/ /\ rt.step = 2
       /\ AddSave(1)
       /\ rt' = [rt EXCEPT !.step = 3]
       /\ UNCHANGED budget
    \/ /\ rt.step = 3
       /\ Fetch(1)
       /\ rt' = [rt EXCEPT !.step = 4]
       /\ UNCHANGED budget
    \/ /\ rt.step = 4
       /\ \E i \in 1..Len(listed[1]) :
              /\ listed[1][i].transaction_id = rt.id
              /\ DeleteLoad(1, i)
       /\ rt' = [rt EXCEPT !.step = 5]
       /\ UNCHANGED budget
    \/ /\ rt.step = 5
       /\ DeleteSave(1)
       /\ rt' = [rt EXCEPT !.step = 6]
       /\ UNCHANGED budget
    \/ /\ rt.step = 6
       /\ Fetch(1)
       /\ rt' = [rt EXCEPT !.step = 7]
       /\ UNCHANGED budget

SpecRoundTrip == InitRoundTrip /\ [][NextRoundTrip]_vars

(* ------------------------------ properties ----------------------------- *)
\* the rows of the snapshot a load reads, as they stand in the file
StoredUsers == IF usersTmp.exists THEN usersTmp.rows ELSE usersBase.rows
StoredTx == IF txTmp.exists THEN txTmp.rows ELSE txBase.rows
\* the largest element of a non-empty set of ids
Largest(S) == CHOOSE m \in S : \A x \in S : x <= m
Smallest(S) == CHOOSE m \in S : \A x \in S : m <= x
\* session p has just returned from the handler it was in
Returns(p, from) == pc[p] = from /\ pc'[p] = "idle"

\* C1: every row fetch_transactions(A) hands to the page has user_id = A,
\* whatever adds and deletes of other users interleave.
C1_LedgerIsolation ==
    \A p \in Procs : \A i \in 1..Len(listed[p]) :
        listed[p][i].user_id = user_id[p]

\* a page lists rows while the collection also holds rows of somebody else
C1_Witness ==
    \E p \in Procs :
        /\ pc[p] = "page"
        /\ listed[p] # <<>>
        /\ \E i \in 1..Len(load_transactions) :
               load_transactions[i].user_id # user_id[p]

\* C2: register_user with an email some stored user row already has returns
\* "User already exists!" and writes nothing.
C2_DuplicateEmailConflict ==
    [][\A p \in Procs, in \in RegisterInputs, salt \in Salts :
          (/\ RegisterLoad(p, in[1], in[2], in[3], salt)
           /\ \E i \in 1..Len(StoredUsers) : StoredUsers[i].email = in[2])
          => /\ ret'[p] = RegisterConflict
             /\ pc'[p] = "idle"
             /\ UNCHANGED files]_vars

\* C3: the id of a new user or transaction is 1 for an empty loaded
\* collection and otherwise one more than the largest id among all its rows.
C3_IdIsMaxPlusOne ==
    \A p \in Procs :
        /\ pc[p] = "register_save" =>
               row[p].user_id =
                   IF snap[p] = <<>> THEN 1 ELSE Largest(UserIds(snap[p])) + 1
        /\ pc[p] = "add_save" =>
               row[p].transaction_id =
                   IF snap[p] = <<>> THEN 1 ELSE Largest(TxIds(snap[p])) + 1

\* an add that found a gap below the largest id, held by another user's row
C3_Witness ==
    \E p \in Procs :
        /\ pc[p] = "add_save"
        /\ snap[p] # <<>>
        /\ row[p].transaction_id > Len(snap[p]) + 1
        /\ \E i \in 1..Len(snap[p]) :
               /\ snap[p][i].transaction_id + 1 = row[p].transaction_id
               /\ snap[p][i].user_id # row[p].user_id

\* C4: add, list, delete of the id add assigned, list, with nothing in
\* between, ends with the loaded collection and the user's list as they were
\* before the add.
C4_RoundTrip ==
    rt.step = 7 =>
        /\ load_transactions = rt.before
        /\ Len(listed[1]) = Len(RowsOfUser(rt.before, user_id[1]))
        /\ Range(listed[1]) = Range(WithDatetime(RowsOfUser(rt.before, user_id[1])))

\* a round trip that finished on a collection that held a row of the user,
\* with an id that is not its row number
C4_Witness ==
    /\ rt.step = 7
    /\ rt.id > Len(rt.before) + 1
    /\ listed[1] # <<>>

\* C5: delete_transaction(id) leaves the loaded collection without the rows
\* of that id and with every other row as it was, in order; a missing id
\* changes nothing and the handler returns normally.
C5_DeleteRemovesId ==
    [][\A p \in Procs :
          Returns(p, "delete_save") =>
              LET before == snap[p]
                  after == load_transactions'
                  kept == {i \in 1..Len(before) : before[i].transaction_id # arg[p]}
              IN /\ Len(after) = Cardinality(kept)
                 /\ \A i \in 1..Len(after) :
                        /\ after[i].transaction_id # arg[p]
                        /\ \E k \in kept :
                               /\ before[k] = after[i]
                               /\ Cardinality({j \in kept : j < k}) = i - 1
                 /\ arg[p] \notin TxIds(before) => after = before]_vars

\* one delete about to save whose id is gone, another whose id is there
C5_Witness ==
    \E p, q \in Procs :
        /\ pc[p] = "delete_save" /\ pc[q] = "delete_save"
        /\ snap[p] # <<>>
        /\ arg[p] \notin TxIds(snap[p])
        /\ arg[q] \in TxIds(snap[q])
        /\ Len(snap[q]) > 1

\* C6: login_user returns False, and leaves logged_in and user_id alone, both
\* when no row has the email and when the first row's hash does not verify;
\* when it succeeds user_id is that of the first row with the email and
\* logged_in is set.
C6_LoginOutcome ==
    [][\A p \in Procs :
          /\ \A email \in Emails, password \in Passwords :
                LoginCheck(p, email, password) =>
                    LET hits == {i \in 1..Len(StoredUsers) : StoredUsers[i].email = email}
                        first == CHOOSE i \in hits : \A j \in hits : i <= j
                    IN /\ hits = {} => ret'[p] = "False"
                       /\ (hits # {} /\ StoredUsers[first].password_hash.pw # password)
                              => ret'[p] = "False"
                       /\ ret'[p] = "False" => UNCHANGED <<logged_in, user_id, pc>>
                       /\ ret'[p] # "False" =>
                              /\ hits # {}
                              /\ user_id'[p] = StoredUsers[first].user_id
                              /\ pc'[p] = "login_flag"
          /\ Returns(p, "login_flag") =>
                /\ logged_in'[p]
                /\ user_id'[p] = user_id[p]
                /\ ret'[p] = "True"]_vars

\* one session logged in as the second user, another one turned away
C6_Witness ==
    \E p, q \in Procs :
        /\ logged_in[p] /\ ret[p] = "True" /\ user_id[p] = 2
        /\ ~logged_in[q] /\ ret[q] = "False" /\ user_id[q] = None

\* C7: a save writes the saver's loaded snapshot with the saver's change and
\* nothing else: rows another writer saved after the saver had loaded are
\* gone, although that writer returned normally.
C7_LastSaveWins ==
    [][\A p \in Procs :
          /\ Returns(p, "add_save") =>
                /\ Len(load_transactions') = Len(snap[p]) + 1
                /\ \A i \in 1..Len(snap[p]) : load_transactions'[i] = snap[p][i]
                /\ load_transactions'[Len(snap[p]) + 1] = ReadTxRow(row[p])
          /\ Returns(p, "delete_save") =>
                Range(load_transactions') =
                    {r \in Range(snap[p]) : r.transaction_id # arg[p]}
          /\ Returns(p, "register_save") =>
                /\ Len(load_users') = Len(snap[p]) + 1
                /\ \A i \in 1..Len(snap[p]) : load_users'[i] = snap[p][i]
                /\ load_users'[Len(snap[p]) + 1] = ReadUserRow(row[p])]_vars

\* two adds loaded the same collection, one has saved and returned, the
\* other is about to save
C7_Witness ==
    \E p, q \in Procs :
        /\ pc[p] = "add_save" /\ pc[q] = "idle"
        /\ Len(load_transactions) = Len(snap[p]) + 1
        /\ \A i \in 1..Len(snap[p]) : load_transactions[i] = snap[p][i]
        /\ load_transactions[Len(snap[p]) + 1].transaction_id = row[p].transaction_id
        /\ load_transactions[Len(snap[p]) + 1].user_id # row[p].user_id

\* C8: no two rows of the transaction collection have the same
\* transaction_id, whatever adds and deletes interleave.
C8_TxIdsUnique ==
    \A i, j \in 1..Len(StoredTx) :
        i # j => StoredTx[i].transaction_id # StoredTx[j].transaction_id

\* two adds hold the same new id at the same time, over a collection of rows
C8_Witness ==
    \E p, q \in Procs :
        /\ p # q
        /\ pc[p] = "add_save" /\ pc[q] = "add_save"
        /\ row[p].transaction_id = row[q].transaction_id
        /\ Len(StoredTx) >= 1

\* C9: no two rows of the user collection have the same email.
C9_EmailsUnique ==
    \A i, j \in 1..Len(StoredUsers) :
        i # j => StoredUsers[i].email # StoredUsers[j].email

\* C10 as stated: a user row, once in the collection, is in it ever after.
C10_UserRowsStay ==
    [][\A r \in Range(load_users) : r \in Range(load_users')]_vars

\* C10 amended: the user collection changes only when a register_user saves,
\* and that save keeps every row of the snapshot it had loaded, unchanged and
\* in place.
C10_SaveKeepsLoadedRows ==
    [][load_users' # load_users =>
          \E p \in Procs :
              /\ Returns(p, "register_save")
              /\ Len(load_users') > Len(snap[p])
              /\ \A i \in 1..Len(snap[p]) : load_users'[i] = snap[p][i]]_vars

\* a registration about to save over a collection another one has grown
C10_Witness ==
    \E p \in Procs :
        /\ pc[p] = "register_save"
        /\ Len(snap[p]) >= 1
        /\ Len(load_users) > Len(snap[p])

\* C11: a load returns the scratch snapshot whenever one exists, so that
\* right after a save the load returns exactly the table that was passed to
\* the save; it returns the baseline when only the baseline exists and the
\* empty table when neither file exists.
C11_LoadReturnsSaved ==
    [][/\ \A p \in Procs :
             /\ Returns(p, "add_save") =>
                    load_transactions' = TxWithNew(snap[p], row[p])
             /\ Returns(p, "delete_save") =>
                    load_transactions' = RowsWithoutId(snap[p], arg[p])
             /\ Returns(p, "register_save") =>
                    load_users' = UsersWithNew(snap[p], row[p])
       /\ (~txTmp'.exists /\ txBase'.exists) =>
             Len(load_transactions') = Len(txBase'.rows)
       /\ (~usersTmp'.exists /\ usersBase'.exists) =>
             Len(load_users') = Len(usersBase'.rows)
       /\ (~txTmp'.exists /\ ~txBase'.exists) => load_transactions' = <<>>
       /\ (~usersTmp'.exists /\ ~usersBase'.exists) => load_users' = <<>>]_vars

\* C12: no step writes the baseline files users.csv and transactions.csv,
\* so they keep their initial contents in every reachable state; every save
\* leaves in the scratch file exactly the rows of the table passed to it.
C12_BaselineNeverWritten ==
    [][/\ usersBase' = usersBase
       /\ txBase' = txBase
       /\ \A p \in Procs :
             /\ Returns(p, "add_save") =>
                    LET df == TxWithNew(snap[p], row[p])
                    IN /\ txTmp'.exists
                       /\ Len(txTmp'.rows) = Len(df)
                       /\ \A i \in 1..Len(df) : txTmp'.rows[i] = WriteTxRow(df[i])
             /\ Returns(p, "delete_save") =>
                    LET df == RowsWithoutId(snap[p], arg[p])
                    IN /\ txTmp'.exists
                       /\ Len(txTmp'.rows) = Len(df)
                       /\ \A i \in 1..Len(df) : txTmp'.rows[i] = WriteTxRow(df[i])
             /\ Returns(p, "register_save") =>
                    LET df == UsersWithNew(snap[p], row[p])
                    IN /\ usersTmp'.exists
                       /\ Len(usersTmp'.rows) = Len(df)
                       /\ \A i \in 1..Len(df) :
                              usersTmp'.rows[i] = WriteUserRow(df[i])]_vars

\* both baselines exist and both scratch snapshots have been written with
\* other contents
C12_Witness ==
    /\ usersBase.exists /\ usersTmp.exists /\ usersTmp.rows # usersBase.rows
    /\ txBase.exists /\ txTmp.exists /\ txTmp.rows # txBase.rows

\* the months in which the table has Expense rows, and the sum of the
\* Expense amounts of a set of months
ExpenseMonths(df) ==
    {df[i].transaction_date \div 100 :
        i \in {j \in 1..Len(df) : df[j].type = "Expense"}}

RECURSIVE ExpenseTotal(_, _)
ExpenseTotal(df, months) ==
    IF df = <<>> THEN 0
    ELSE LET r == Head(df)
             counted == r.type = "Expense"
                        /\ (r.transaction_date \div 100) \in months
         IN (IF counted THEN r.amount ELSE 0) + ExpenseTotal(Tail(df), months)

\* C13: the forecast shown is 0 for an empty table, the sum of all Expense
\* amounts when the Expense rows lie in fewer than two months, and 2b - a
\* when they lie in exactly two months with totals a (earlier), b (later).
C13_DegenerateForecast ==
    \A p \in Procs :
        budget[p].shown =>
            LET df == listed[p]
                months == ExpenseMonths(df)
                predicted == budget[p].predicted_expense
            IN /\ df = <<>> => predicted = [num |-> 0, den |-> 1]
               /\ Cardinality(months) < 2 =>
                      predicted = [num |-> ExpenseTotal(df, months), den |-> 1]
               /\ Cardinality(months) = 2 =>
                      LET a == ExpenseTotal(df, {Smallest(months)})
                          b == ExpenseTotal(df, {Largest(months)})
                      IN predicted = [num |-> 2 * b - a, den |-> 1]

\* expenses in exactly two months, 400 then 1100, forecast 1800
C13_Witness ==
    \E p \in Procs :
        /\ budget[p].shown
        /\ Cardinality(ExpenseMonths(listed[p])) = 2
        /\ ExpenseTotal(listed[p], {Largest(ExpenseMonths(listed[p]))}) = 1100
        /\ budget[p].predicted_expense = [num |-> 1800, den |-> 1]

\* a table with its Income rows removed
WithoutIncome(df) ==
    LET NotIncome(r) == r.type # "Income"
    IN SelectSeq(df, NotIncome)

\* C14: the forecast of a table equals the forecast of the same table with
\* its Income rows removed: Income adds nothing to a month's total and no
\* month to the months counted.
C14_IncomeExcluded ==
    \A p \in Procs :
        budget[p].shown =>
            budget[p].predicted_expense =
                predict_next_month(WithoutIncome(listed[p]))

\* expenses in two months and an Income row in a month between them that
\* has no expense
C14_Witness ==
    \E p \in Procs :
        /\ budget[p].shown
        /\ Cardinality(ExpenseMonths(listed[p])) = 2
        /\ \E i \in 1..Len(listed[p]) :
              /\ listed[p][i].type = "Income"
              /\ (listed[p][i].transaction_date \div 100)
                     \notin ExpenseMonths(listed[p])
              /\ listed[p][i].transaction_date \div 100
                     > Smallest(ExpenseMonths(listed[p]))
              /\ listed[p][i].transaction_date \div 100
                     < Largest(ExpenseMonths(listed[p]))

\* the sum of the Expense amounts of all stored transactions of a user
RECURSIVE UserExpenseTotal(_, _)
UserExpenseTotal(transactions, uid) ==
    IF transactions = <<>> THEN 0
    ELSE LET r == Head(transactions)
             counted == r.user_id = uid /\ r.type = "Expense"
         IN (IF counted THEN r.amount ELSE 0)
                + UserExpenseTotal(Tail(transactions), uid)

\* C15: the page warns exactly when the forecast is strictly greater than
\* 1.2 times the total to date, and the total to date is the sum of the
\* Expense amounts of the user's whole stored history (0 when there are
\* none).
C15_OverageSignal ==
    \A p \in Procs :
        budget[p].shown =>
            LET predicted == budget[p].predicted_expense
                total == UserExpenseTotal(load_transactions, user_id[p])
            IN /\ budget[p].total_expense = total
               /\ budget[p].warning <=>
                      predicted.num * 5 > total * 6 * predicted.den

\* the forecast is exactly 1.2 times the total, 1800 against 1500, and the
\* page does not warn
C15_Witness ==
    \E p \in Procs :
        /\ budget[p].shown
        /\ budget[p].predicted_expense = [num |-> 1800, den |-> 1]
        /\ budget[p].total_expense = 1500
        /\ ~budget[p].warning

\* where the row with a transaction_id stands in the stored collection
PositionOf(transactions, id) ==
    CHOOSE k \in 1..Len(transactions) : transactions[k].transaction_id = id

\* C16: fetch_transactions returns the rows in descending order of
\* transaction_date whatever order they were added in, and rows of equal
\* date in the order in which they stand in the collection.
C16_SortedStable ==
    \A p \in Procs :
        pc[p] = "page" =>
            \A i, j \in 1..Len(listed[p]) :
                i < j =>
                    \/ listed[p][i].transaction_date > listed[p][j].transaction_date
                    \/ /\ listed[p][i].transaction_date = listed[p][j].transaction_date
                       /\ PositionOf(load_transactions, listed[p][i].transaction_id)
                            < PositionOf(load_transactions, listed[p][j].transaction_id)

\* C17: the call of predict_next_month leaves the table passed to it with
\* the same columns and the same cell values, and changes no stored
\* collection.
C17_NoSideEffects ==
    [][\A p \in Procs :
          (pc[p] = "page" /\ pc'[p] = "budget") =>
              /\ listed'[p] = listed[p]
              /\ files' = files]_vars

\* the month of a set of months that has exactly rank earlier months
RankedMonth(months, rank) ==
    CHOOSE m \in months : Cardinality({x \in months : x < m}) = rank

RECURSIVE SumTo(_, _)
SumTo(f, n) == IF n = 0 THEN 0 ELSE f[n] + SumTo(f, n - 1)

\* C18: with Expense rows in k >= 2 months, the forecast is the value at k
\* of the least-squares line through the points (i, total of the month of
\* chronological rank i), i = 0..k-1, whatever calendar gaps lie between
\* the months: the residuals of the line sum to zero and are orthogonal to
\* the indices. The value is not clamped.
C18_TrendFit ==
    \A p \in Procs :
        budget[p].shown =>
            LET df == listed[p]
                months == ExpenseMonths(df)
                k == Cardinality(months)
                X == [i \in 1..k |-> i - 1]
                y == [i \in 1..k |-> ExpenseTotal(df, {RankedMonth(months, i - 1)})]
                line == LinearRegression_fit(X, y)
                residual == [i \in 1..k |->
                                line.den * y[i] - line.intercept - line.coef * X[i]]
                predicted == budget[p].predicted_expense
            IN k >= 2 =>
                  /\ line.den > 0
                  /\ SumTo(residual, k) = 0
                  /\ SumTo([i \in 1..k |-> X[i] * residual[i]], k) = 0
                  /\ predicted.num * line.den =
                         predicted.den * (line.intercept + line.coef * k)

\* expenses in three months with a calendar gap, falling, and a negative
\* forecast
C18_Witness ==
    \E p \in Procs :
        /\ budget[p].shown
        /\ Cardinality(ExpenseMonths(listed[p])) = 3
        /\ budget[p].predicted_expense.num < 0

\* C19: in every state, the states between the two assignments of a login
\* or a logout included, a session with logged_in set has a user_id;
\* user_id only ever changes to the user_id of a row login_user read from
\* the user collection in that step, or to None; when the logout has
\* finished logged_in is false and user_id is None.
C19_SessionInvariant ==
    [][\A p \in Procs :
          /\ logged_in'[p] => user_id'[p] # None
          /\ user_id'[p] # user_id[p] =>
                \/ user_id'[p] = None
                \/ user_id'[p] \in UserIds(load_users)
          /\ Returns(p, "logout_uid") => (~logged_in'[p] /\ user_id'[p] = None)]_vars

\* one session between the two assignments of a login, the other between
\* the two assignments of a logout
C19_Witness ==
    \E p, q \in Procs :
        /\ pc[p] = "login_flag" /\ ~logged_in[p] /\ user_id[p] # None
        /\ pc[q] = "logout_uid" /\ ~logged_in[q] /\ user_id[q] # None

\* C20: a delete that a session issues for a transaction_id taken from its
\* own list filters out of the collection it loaded only rows owned by the
\* session's user, whatever adds and deletes of other users interleave.
C20_DeleteOwnRowsOnly ==
    \A p \in Procs :
        pc[p] = "delete_save" =>
            \A i \in 1..Len(snap[p]) :
                snap[p][i].transaction_id = arg[p] =>
                    snap[p][i].user_id = user_id[p]

====
